---- MODULE Spec2Model ----
(***************************************************************************)
(* Keep alert forwarding for Airflow: the KeepAlertPayload schema, the     *)
(* KeepHook client (hooks/keep.py) and the KeepNotifier adapter            *)
(* (notifications/keep.py).                                                *)
(*                                                                         *)
(* A Python dict is a function whose DOMAIN is the set of keys present, so *)
(* "key absent" and "key present with value None" are different states.    *)
(* Every scalar value is a string; None is the reserved string None.  A    *)
(* text too long to write out is written LongText(n) and TextLen gives its *)
(* length n.  datetime.now().isoformat() is IsoFormat(now).                *)
(***************************************************************************)
EXTENDS Integers, Sequences, FiniteSets, TLC

(* ------------------------------ bounds -------------------------------- *)

\* The clock runs from 0 to MaxClock.
MaxClock == 2

\* At most MaxInvocations calls of execute / notify are started.
MaxInvocations == 2

\* At most MaxMutations writes to the caller's mapping after construction.
MaxMutations == 1

(* --------------------------- values and dicts ------------------------- *)

None == "<None>"

EmptyDict == [k \in {} |-> None]

Has(d, k) == k \in DOMAIN d

\* dict.get(k)
Get(d, k) == IF Has(d, k) THEN d[k] ELSE None

\* d[k] = v
Put(d, k, v) == [x \in DOMAIN d \cup {k} |-> IF x = k THEN v ELSE d[x]]

\* d.setdefault(k, v): only an absent key is filled; a key present with None stays
SetDefault(d, k, v) == IF Has(d, k) THEN d ELSE Put(d, k, v)

\* d.update(e)
Update(d, e) == [x \in DOMAIN d \cup DOMAIN e |-> IF x \in DOMAIN e THEN e[x] ELSE d[x]]

\* datetime.isoformat()
IsoFormat(t) == "T" \o ToString(t)

\* max_length of message and description
MaxTextLen == 2000

LongText(n) == "x*" \o ToString(n)

LongLens == {MaxTextLen, MaxTextLen + 1}

\* len(s)
TextLen(s) == IF \E n \in LongLens : s = LongText(n)
              THEN CHOOSE n \in LongLens : s = LongText(n)
              ELSE Len(s)

(* --------------------------- KeepAlertPayload ------------------------- *)

Statuses == {"firing", "resolved", "acknowledged", "suppressed", "pending"}

Severities == {"critical", "high", "warning", "info", "low"}

\* Optional[str] with max_length
ValidTextOffByOne(v) == v = None \/ TextLen(v) <= MaxTextLen + 1

ValidText(v) == v = None \/ TextLen(v) <= MaxTextLen

\* KeepAlertPayload(**d) raises no ValidationError
Valid(d) ==
    /\ Has(d, "name") /\ d["name"] # None
    /\ Has(d, "status") => d["status"] \in Statuses
    /\ Has(d, "severity") => d["severity"] \in Severities
    /\ Has(d, "message") => ValidText(d["message"])
    /\ Has(d, "description") => ValidText(d["description"])

Field(d, k, default) == IF Has(d, k) THEN d[k] ELSE default

\* KeepAlertPayload(**d).model_dump(): unknown keys are dropped, defaults filled
KeepAlertPayload(d) ==
    [ id              |-> Field(d, "id", None),
      name            |-> Field(d, "name", None),
      status          |-> Field(d, "status", "firing"),
      severity        |-> Field(d, "severity", "info"),
      lastReceived    |-> Field(d, "lastReceived", None),
      firingStartTime |-> Field(d, "firingStartTime", None),
      environment     |-> Field(d, "environment", "production"),
      service         |-> Field(d, "service", None),
      source          |-> <<"python">>,
      message         |-> Field(d, "message", None),
      description     |-> Field(d, "description", None),
      pushed          |-> TRUE,
      url             |-> Field(d, "url", None),
      imageUrl        |-> Field(d, "imageUrl", None),
      labels          |-> Field(d, "labels", EmptyDict),
      fingerprint     |-> Field(d, "fingerprint", None),
      assignee        |-> Field(d, "assignee", None),
      note            |-> Field(d, "note", None) ]

\* no request body (the frame or result holds none)
NoPayload == EmptyDict

(* ------------------------------ errors -------------------------------- *)

\* An exception: its class and its message, the message as the list of the parts
\* the f-strings nest (outermost first).
Err(type, msg) == [type |-> type, msg |-> msg]

NoError == Err("", << >>)

\* raise AirflowException(f"{prefix}: {str(e)}")
Wrap(prefix, e) == Err("AirflowException", <<prefix>> \o e.msg)

PydanticError == Err("ValidationError", <<"validation error for KeepAlertPayload">>)

(* ------------------------------ inputs -------------------------------- *)

Absent == "<absent>"

Entry(k, v) == IF v = Absent THEN EmptyDict ELSE (k :> v)

\* labels chosen as a set holding no dict (key absent) or one dict
LabelsEntry(ls) == IF ls = {} THEN EmptyDict ELSE ("labels" :> (CHOOSE l \in ls : TRUE))

CallerLabels == { {}, {[team |-> "data"]}, {[team |-> "data", dag_id |-> "mine"]} }

Mapping(n, st, sv, lr, fs, msg, desc, ls) ==
    Entry("name", n) @@ Entry("status", st) @@ Entry("severity", sv)
    @@ Entry("lastReceived", lr) @@ Entry("firingStartTime", fs)
    @@ Entry("message", msg) @@ Entry("description", desc) @@ LabelsEntry(ls)

\* Mappings the schema accepts: name given, status omitted or one of the enumerated
\* values; the two timestamps omitted, None or given; labels omitted or given; a
\* message of the greatest length allowed.
ValidMappings ==
    { Mapping("TaskFailure", st, Absent, lr, fs, Absent, Absent, {}) :
        st \in {Absent, "firing", "resolved"},
        lr \in {Absent, None, "2020-01-01"},
        fs \in {Absent, None} }
    \cup
    { Mapping("TaskFailure", st, Absent, Absent, Absent, Absent, Absent, ls) :
        st \in {Absent, "resolved"}, ls \in CallerLabels }
    \cup
    { Mapping("TaskFailure", "firing", "critical", Absent, Absent, LongText(MaxTextLen),
              desc, {}) : desc \in {Absent, "details"} }

\* Mappings the schema rejects: no name (the default alert_data among them), a
\* status or severity outside its set, a message or description one character too long.
InvalidMappings ==
    { Mapping(Absent, Absent, Absent, Absent, Absent, Absent, Absent, {}),
      Mapping(Absent, "firing", Absent, Absent, Absent, "late", Absent, {}),
      Mapping("TaskFailure", "unknown", Absent, Absent, Absent, Absent, Absent, {}),
      Mapping("TaskFailure", "firing", "fatal", Absent, Absent, Absent, Absent, {}),
      Mapping("TaskFailure", Absent, Absent, Absent, Absent, LongText(MaxTextLen + 1), Absent, {}),
      Mapping("TaskFailure", Absent, Absent, Absent, Absent, LongText(MaxTextLen),
              LongText(MaxTextLen + 1), {}) }

\* The mappings a caller passes as alert_data.
CallerMappings == ValidMappings \cup InvalidMappings

\* The host's connection registry entry for keep_conn_id.
Connection(known, host, password) == [known |-> known, host |-> host, password |-> password]

Connections ==
    { Connection(FALSE, "", ""),
      Connection(TRUE, "", "key"),
      Connection(TRUE, "https://keep", ""),
      Connection(TRUE, "https://keep", None),
      Connection(TRUE, "https://keep", "key") }

(* ------------------------------ contexts ------------------------------ *)

\* An Airflow task context: context.get("dag") etc.  dag_run is "absent" (the key
\* is missing), "ok", or "no_execution_date" (a DagRun object without the
\* execution_date attribute); task_instance tells whether that key is present.
Context(dag, task, dag_run, run_id, execution_date, task_instance, try_number) ==
    [ dag |-> dag, task |-> task, dag_run |-> dag_run, run_id |-> run_id,
      execution_date |-> execution_date, task_instance |-> task_instance,
      try_number |-> try_number ]

CtxA == Context("wf1", "t1", "ok", "r1", 1, TRUE, "1")

CtxB == Context("wf2", "t2", "ok", "r2", 2, TRUE, "2")

CtxBare == Context(None, None, "absent", None, 0, FALSE, None)

CtxNoDate == Context("wf1", "t1", "no_execution_date", "r1", 0, TRUE, "1")

Contexts == {CtxA, CtxB, CtxBare, CtxNoDate}

NoContext == Context("", "", "", "", 0, FALSE, "")

(* ------------------------------ KeepHook ------------------------------ *)

Falsy(s) == s = None \/ s = ""

\* KeepHook._validate_alert_data
validate_alert_data(d) ==
    IF Valid(d) THEN NoError ELSE Wrap("Invalid alert payload", PydanticError)

\* the cause raised inside KeepHook._get_keep_credentials, NoError when none
credentials_fault_no_key_check(c) ==
    IF ~c.known THEN Err("AirflowNotFoundException", <<"The conn_id isn't defined">>)
    ELSE IF Falsy(c.host)
         THEN Err("ValueError", <<"Keep endpoint (host) not configured in connection">>)
    ELSE NoError

credentials_fault(c) ==
    IF ~c.known THEN Err("AirflowNotFoundException", <<"The conn_id isn't defined">>)
    ELSE IF Falsy(c.host)
         THEN Err("ValueError", <<"Keep endpoint (host) not configured in connection">>)
    ELSE IF Falsy(c.password)
         THEN Err("ValueError", <<"Keep API key not configured in connection (password field)">>)
    ELSE NoError

\* KeepHook._get_keep_credentials
get_keep_credentials(c) ==
    LET e == credentials_fault(c) IN
    IF e # NoError
    THEN [error |-> Wrap("Failed to retrieve Keep credentials", e),
          keep_endpoint |-> None, keep_api_key |-> None]
    ELSE [error |-> NoError, keep_endpoint |-> c.host, keep_api_key |-> c.password]

NoHook == [built |-> FALSE, keep_endpoint |-> None, keep_api_key |-> None]

\* KeepHook.__init__: validation first, the credential lookup only after it passed
KeepHookInit(d, c) ==
    LET v == validate_alert_data(d) IN
    IF v # NoError
    THEN [error |-> v, looked_up |-> FALSE, hook |-> NoHook]
    ELSE LET cr == get_keep_credentials(c) IN
         [error |-> cr.error, looked_up |-> TRUE,
          hook |-> IF cr.error = NoError
                   THEN [built |-> TRUE, keep_endpoint |-> cr.keep_endpoint,
                         keep_api_key |-> cr.keep_api_key]
                   ELSE NoHook]

\* KeepHook._build_request_components at clock time t
build_request_components(d, t) ==
    LET a1 == SetDefault(d, "lastReceived", IsoFormat(t))
        a2 == IF Get(a1, "status") = "firing"
              THEN SetDefault(a1, "firingStartTime", IsoFormat(t))
              ELSE a1
    IN [error |-> IF Valid(a2) THEN NoError ELSE PydanticError,
        payload |-> KeepAlertPayload(a2)]

\* 400 <= response.status_code < 600
IsFailureStatusInclusive(code) == 400 <= code /\ code <= 600

IsFailureStatus(code) == 400 <= code /\ code < 600

\* What the transport does with one request: a fault, or a response.
Outcome(fault, status, text) == [fault |-> fault, status |-> status, text |-> text]

StatusCodes == {201, 399, 400, 500, 599, 600}

ResponseText(code) == IF code = 500 THEN "server error" ELSE "body"

Outcomes ==
    {Outcome(TRUE, 0, "")} \cup {Outcome(FALSE, s, ResponseText(s)) : s \in StatusCodes}

NoOutcome == Outcome(FALSE, 0, "")

\* the number of requests one call of self.run issues
run_requests_with_retry(o) == IF o.fault \/ o.status >= 400 THEN 2 ELSE 1

run_requests(o) == 1

\* the try block of KeepHook.execute, given what the transport did
execute_error(o) ==
    IF o.fault
    THEN Wrap("Failed to send alert to Keep", Err("ConnectionError", <<"connection refused">>))
    ELSE IF IsFailureStatus(o.status)
    THEN Wrap("Failed to send alert to Keep",
              Err("RequestException",
                  <<"Keep API request failed", ToString(o.status), o.text>>))
    ELSE NoError

(* ----------------------------- KeepNotifier --------------------------- *)

\* KeepNotifier._validate_alert_data
notifier_validate_alert_data(d) ==
    IF Valid(d) THEN NoError ELSE Wrap("Invalid alert data", PydanticError)

\* KeepNotifier._enrich_with_defaults at clock time t
enrich_with_defaults(d, t) ==
    LET d1 == IF ~Has(d, "lastReceived") THEN Put(d, "lastReceived", IsoFormat(t)) ELSE d
    IN IF Get(d1, "status") = "firing" /\ ~Has(d1, "firingStartTime")
       THEN Put(d1, "firingStartTime", IsoFormat(t))
       ELSE d1

\* context_data["labels"] of KeepNotifier._enrich_with_context
context_labels(c) ==
    [ dag_id         |-> c.dag,
      task_id        |-> c.task,
      run_id         |-> IF c.dag_run = "absent" THEN None ELSE c.run_id,
      execution_date |-> IF c.dag_run = "absent" THEN None ELSE IsoFormat(c.execution_date),
      try_number     |-> IF c.task_instance THEN c.try_number ELSE None ]

\* KeepNotifier._enrich_with_context: raises while context_data is built, before
\* alert_data is touched; else merges the context labels into alert_data["labels"]
enrich_with_context(d, c) ==
    IF c.dag_run = "no_execution_date"
    THEN [error |-> Err("AttributeError",
                        <<"'DagRun' object has no attribute 'execution_date'">>),
          alert_data |-> d, context_data |-> EmptyDict]
    ELSE [error |-> NoError,
          alert_data |-> Put(d, "labels",
                             Update(Field(d, "labels", EmptyDict), context_labels(c))),
          context_data |-> ("labels" :> context_labels(c))]

\* the except clause of KeepNotifier.notify
notify_raise_unwrapped(e) == e

notify_raise(e) == Wrap("Failed to send Keep notification", e)

(* -------------------------------- state ------------------------------- *)

Threads == {"A", "B"}

\* The thread of the host runtime that makes the calls when they are not concurrent.
Main == "A"

VARIABLES
    now,          \* the clock datetime.now() reads
    conn,         \* the connection registry's entry for keep_conn_id
    obj,          \* what the caller holds: "none", "hook" (a KeepHook), "notifier", "failed"
    callerData,   \* the mapping the caller passed to the constructor, as passed
    createdAt,    \* the clock time of the construction
    alert_data,   \* the dict itself: the caller's mapping, KeepNotifier.alert_data and
                  \* KeepHook.alert_data are one object (alert_data or {} keeps a non-empty dict)
    hook,         \* the KeepHook: built directly, or the notifier's cached_property
    ctor,         \* the last constructor call: class, the mapping it was given, its error
    pc,           \* per thread: where its call of execute / notify stands
    frame,        \* per thread: the locals of the call
    result,       \* per thread: how its last call ended
    invocations,  \* calls of execute / notify started
    requests,     \* HTTP requests issued
    lookups,      \* get_connection calls made by _get_keep_credentials
    mutations     \* writes of the caller to its mapping after construction

vars == <<now, conn, obj, callerData, createdAt, alert_data, hook, ctor, pc, frame,
          result, invocations, requests, lookups, mutations>>

NoCtor == [class |-> "", input |-> EmptyDict, error |-> NoError]

NoFrame == [via |-> "", ctx |-> NoContext, context_data |-> EmptyDict,
            payload |-> NoPayload, api_key |-> None, builtAt |-> 0]

\* kind: "none", "returned" (returned None) or "raised" (error tells what).
\* sent: whether a request was issued; payload, api_key, builtAt, outcome: the
\* request's body and key, the clock time it was built at, what the transport did.
NoResult == [kind |-> "none", via |-> "", ctx |-> NoContext, error |-> NoError,
             sent |-> 0, payload |-> NoPayload, api_key |-> None, builtAt |-> 0,
             outcome |-> NoOutcome]

Raised(f, e) == [NoResult EXCEPT !.kind = "raised", !.via = f.via, !.ctx = f.ctx, !.error = e]

Init ==
    /\ now = 0
    /\ conn \in Connections
    /\ obj = "none"
    /\ callerData = EmptyDict
    /\ createdAt = 0
    /\ alert_data = EmptyDict
    /\ hook = NoHook
    /\ ctor = NoCtor
    /\ pc = [t \in Threads |-> "idle"]
    /\ frame = [t \in Threads |-> NoFrame]
    /\ result = [t \in Threads |-> NoResult]
    /\ invocations = 0
    /\ requests = 0
    /\ lookups = 0
    /\ mutations = 0

AllIdle == \A t \in Threads : pc[t] = "idle"

(* ------------------------------- actions ------------------------------ *)

\* Time passes.  The clock is read when an object is constructed and when a request is
\* built, so a tick inside a call reads the same as one just before or after it.
Tick ==
    /\ now < MaxClock
    /\ AllIdle
    /\ now' = now + 1
    /\ UNCHANGED <<conn, obj, callerData, createdAt, alert_data, hook, ctor, pc, frame,
                   result, invocations, requests, lookups, mutations>>

\* hook = KeepHook(keep_conn_id, alert_data=d)
NewKeepHook ==
    \E d \in CallerMappings :
        LET r == KeepHookInit(d, conn) IN
        /\ obj = "none"
        /\ obj' = IF r.error = NoError THEN "hook" ELSE "failed"
        /\ callerData' = d
        /\ createdAt' = now
        /\ alert_data' = d
        /\ hook' = r.hook
        /\ ctor' = [class |-> "KeepHook", input |-> d, error |-> r.error]
        /\ lookups' = IF r.looked_up THEN lookups + 1 ELSE lookups
        /\ UNCHANGED <<now, conn, pc, frame, result, invocations, requests, mutations>>

\* notifier = KeepNotifier(keep_conn_id, alert_data=d), d drawn from S
NewKeepNotifierFrom(S) ==
    \E d \in S :
        LET e == notifier_validate_alert_data(d) IN
        /\ obj = "none"
        /\ obj' = IF e = NoError THEN "notifier" ELSE "failed"
        /\ callerData' = d
        /\ createdAt' = now
        /\ alert_data' = IF e = NoError THEN enrich_with_defaults(d, now) ELSE d
        /\ ctor' = [class |-> "KeepNotifier", input |-> d, error |-> e]
        /\ UNCHANGED <<now, conn, hook, pc, frame, result, invocations, requests,
                       lookups, mutations>>

NewKeepNotifier == NewKeepNotifierFrom(CallerMappings)

\* What a caller may write into its mapping after construction.
Mutations ==
    { <<"status", "unknown">>, <<"message", LongText(MaxTextLen + 1)>> }

\* The caller writes d[k] = v to the mapping it passed in; the hook and the notifier
\* hold that same dict.
Mutate ==
    \E m \in Mutations :
        /\ obj \in {"hook", "notifier"}
        /\ AllIdle
        /\ mutations < MaxMutations
        /\ mutations' = mutations + 1
        /\ alert_data' = Put(alert_data, m[1], m[2])
        /\ UNCHANGED <<now, conn, obj, callerData, createdAt, hook, ctor, pc, frame,
                       result, invocations, requests, lookups>>

\* The first statement of KeepHook.execute: _build_request_components, outside the
\* try block, so its ValidationError leaves execute as it is; notify wraps it.
BuildRequest(t, via, ctx) ==
    LET b == build_request_components(alert_data, now)
        f == [NoFrame EXCEPT !.via = via, !.ctx = ctx]
    IN IF b.error # NoError
       THEN /\ pc' = [pc EXCEPT ![t] = "idle"]
            /\ frame' = [frame EXCEPT ![t] = NoFrame]
            /\ result' = [result EXCEPT ![t] =
                   Raised(f, IF via = "notify" THEN notify_raise(b.error) ELSE b.error)]
       ELSE /\ pc' = [pc EXCEPT ![t] = "run"]
            /\ frame' = [frame EXCEPT ![t] =
                   [f EXCEPT !.payload = b.payload, !.api_key = hook.keep_api_key,
                             !.builtAt = now]]
            /\ result' = [result EXCEPT ![t] = NoResult]

\* hook.execute() called by the caller on a KeepHook it built
Execute ==
    /\ obj = "hook"
    /\ AllIdle
    /\ invocations < MaxInvocations
    /\ invocations' = invocations + 1
    /\ BuildRequest(Main, "execute", NoContext)
    /\ UNCHANGED <<now, conn, obj, callerData, createdAt, alert_data, hook, ctor,
                   requests, lookups, mutations>>

\* self.run(...) and the reading of the response, in KeepHook.execute
Run(t) ==
    \E o \in Outcomes :
        LET e == execute_error(o)
            f == frame[t]
        IN
        /\ pc[t] = "run"
        /\ requests' = requests + run_requests(o)
        /\ pc' = [pc EXCEPT ![t] = "idle"]
        /\ frame' = [frame EXCEPT ![t] = NoFrame]
        /\ result' = [result EXCEPT ![t] =
               [ kind |-> IF e = NoError THEN "returned" ELSE "raised",
                 via |-> f.via, ctx |-> f.ctx,
                 error |-> IF e # NoError /\ f.via = "notify" THEN notify_raise(e) ELSE e,
                 sent |-> run_requests(o), payload |-> f.payload, api_key |-> f.api_key,
                 builtAt |-> f.builtAt, outcome |-> o ]]
        /\ UNCHANGED <<now, conn, obj, callerData, createdAt, alert_data, hook, ctor,
                       invocations, lookups, mutations>>

\* notify(c), first statement: enriched_data = self._enrich_with_context(context)
NotifyEnrich(t, c) ==
    LET r == enrich_with_context(alert_data, c)
        f == [NoFrame EXCEPT !.via = "notify", !.ctx = c]
    IN
    /\ obj = "notifier"
    /\ pc[t] = "idle"
    /\ invocations < MaxInvocations
    /\ invocations' = invocations + 1
    /\ alert_data' = r.alert_data
    /\ IF r.error # NoError
       THEN /\ pc' = pc
            /\ frame' = frame
            /\ result' = [result EXCEPT ![t] = Raised(f, notify_raise(r.error))]
       ELSE /\ pc' = [pc EXCEPT ![t] = "hook"]
            /\ frame' = [frame EXCEPT ![t] = [f EXCEPT !.context_data = r.context_data]]
            /\ result' = [result EXCEPT ![t] = NoResult]
    /\ UNCHANGED <<now, conn, obj, callerData, createdAt, hook, ctor, requests,
                   lookups, mutations>>

\* notify, self.hook: the cached KeepHook, built from self.alert_data on first use;
\* a construction that raises caches nothing
NotifyHook(t) ==
    /\ pc[t] = "hook"
    /\ IF hook.built
       THEN /\ pc' = [pc EXCEPT ![t] = "update"]
            /\ UNCHANGED <<hook, ctor, lookups, frame, result>>
       ELSE LET r == KeepHookInit(alert_data, conn) IN
            /\ hook' = r.hook
            /\ ctor' = [class |-> "KeepHook", input |-> alert_data, error |-> r.error]
            /\ lookups' = IF r.looked_up THEN lookups + 1 ELSE lookups
            /\ IF r.error # NoError
               THEN /\ pc' = [pc EXCEPT ![t] = "idle"]
                    /\ frame' = [frame EXCEPT ![t] = NoFrame]
                    /\ result' = [result EXCEPT ![t] =
                                     Raised(frame[t], notify_raise(r.error))]
               ELSE /\ pc' = [pc EXCEPT ![t] = "update"]
                    /\ UNCHANGED <<frame, result>>
    /\ UNCHANGED <<now, conn, obj, callerData, createdAt, alert_data, invocations,
                   requests, mutations>>

\* notify: self.hook.alert_data.update(enriched_data)
NotifyUpdate(t) ==
    /\ pc[t] = "update"
    /\ alert_data' = Update(alert_data, frame[t].context_data)
    /\ pc' = [pc EXCEPT ![t] = "execute"]
    /\ UNCHANGED <<now, conn, obj, callerData, createdAt, hook, ctor, frame, result,
                   invocations, requests, lookups, mutations>>

\* notify: self.hook.execute(), up to the request being built
NotifyExecute(t) ==
    /\ pc[t] = "execute"
    /\ BuildRequest(t, "notify", frame[t].ctx)
    /\ UNCHANGED <<now, conn, obj, callerData, createdAt, alert_data, hook, ctor,
                   invocations, requests, lookups, mutations>>

\* The host runtime calls notify on one thread, one call at a time.
Notify == \E c \in Contexts : AllIdle /\ NotifyEnrich(Main, c)

Step == \E t \in Threads : NotifyHook(t) \/ NotifyUpdate(t) \/ NotifyExecute(t) \/ Run(t)

Next ==
    \/ Tick
    \/ NewKeepHook
    \/ NewKeepNotifier
    \/ Mutate
    \/ Execute
    \/ Notify
    \/ Step

Spec == Init /\ [][Next]_vars

(* ------------------------- concurrent notify calls -------------------- *)

\* The mappings the notifier is built from when its notify calls overlap.
ConcurrentMappings ==
    { Mapping("TaskFailure", Absent, Absent, Absent, Absent, Absent, Absent, ls) :
        ls \in CallerLabels }

NewKeepNotifierConcurrent == NewKeepNotifierFrom(ConcurrentMappings)

\* The host runtime calls notify on any thread, whatever the other thread is doing.
NotifyConcurrent == \E t \in Threads : \E c \in Contexts : NotifyEnrich(t, c)

NextConcurrent ==
    \/ NewKeepNotifierConcurrent
    \/ NotifyConcurrent
    \/ Step

SpecConcurrent == Init /\ [][NextConcurrent]_vars

(* ------------------------------- claims ------------------------------- *)

ContextKeys == {"dag_id", "task_id", "run_id", "execution_date", "try_number"}

\* The last call of thread t issued a request.
Sent(t) == result[t].sent > 0

\* The request of thread t's last call reached the service and was answered.
Transmitted(t) == Sent(t) /\ ~result[t].outcome.fault

InFailureRange(code) == code >= 400 /\ code <= 599

\* The AlertPayload schema, read off a request body.
SchemaOK(p) ==
    /\ p.name # None
    /\ p.status \in {"firing", "resolved", "acknowledged", "suppressed", "pending"}
    /\ p.severity \in {"critical", "high", "warning", "info", "low"}
    /\ p.message # None => TextLen(p.message) <= 2000
    /\ p.description # None => TextLen(p.description) <= 2000

BadConnection(c) == ~c.known \/ c.host \in {None, ""} \/ c.password \in {None, ""}

\* C1: the labels of the payload notify(C) transmits are the caller's labels merged
\* with the context labels: every caller key that is no context key keeps the
\* caller's value, every context key has the context's value.
C1_LabelsMerged ==
    \A t \in Threads :
        (result[t].via = "notify" /\ Transmitted(t)) =>
            LET L == Field(callerData, "labels", EmptyDict)
                labels == result[t].payload.labels
            IN /\ \A k \in DOMAIN L \ ContextKeys : k \in DOMAIN labels /\ labels[k] = L[k]
               /\ \A k \in ContextKeys :
                      k \in DOMAIN labels /\ labels[k] = context_labels(result[t].ctx)[k]

\* C2: every payload handed to the transport whose status is "firing" (given or by
\* default) has firingStartTime populated, on the execute and on the notify path.
C2_FiringHasStartTime ==
    \A t \in Threads :
        (Sent(t) /\ result[t].payload.status = "firing") =>
            result[t].payload.firingStartTime # None

\* C3: every payload handed to the transport has lastReceived populated, also when
\* the caller's mapping omits the key or carries it as None.
C3_LastReceivedPopulated ==
    \A t \in Threads : Sent(t) => result[t].payload.lastReceived # None

\* C4 as stated: execute raises if and only if the transport faults or the
\* response status is in [400,600).
C4_RaisesIffTransportOrStatus ==
    \A t \in Threads :
        (result[t].via = "execute" /\ result[t].kind # "none") =>
            (result[t].kind = "raised" <=>
                (Sent(t) /\ (result[t].outcome.fault
                             \/ InFailureRange(result[t].outcome.status))))

\* C4 as amended: execute raises if and only if the re-validation before the request
\* fails (then no request is issued and the ValidationError leaves execute as it
\* is), the transport faults, or the response status is in [400,600); for a status
\* in that range the error carries the status code and the body; for any other
\* status execute returns without a value.
C4_RaisesIffInvalidOrTransportOrStatus ==
    \A t \in Threads :
        (result[t].via = "execute" /\ result[t].kind # "none") =>
            LET r == result[t] IN
            /\ r.kind = "raised" <=>
                   (~Sent(t) \/ r.outcome.fault \/ InFailureRange(r.outcome.status))
            /\ ~Sent(t) => r.error.type = "ValidationError"
            /\ (Sent(t) /\ r.kind = "raised") =>
                   /\ r.error.type = "AirflowException"
                   /\ r.error.msg[1] = "Failed to send alert to Keep"
            /\ (Sent(t) /\ ~r.outcome.fault /\ InFailureRange(r.outcome.status)) =>
                   /\ r.error.msg[3] = ToString(r.outcome.status)
                   /\ r.error.msg[4] = r.outcome.text
            /\ r.kind = "returned" => r.error = NoError

\* C4, reached: execute got status 500 with body "server error" and raised with both.
C4_Witness ==
    \E t \in Threads :
        /\ result[t].via = "execute"
        /\ result[t].kind = "raised"
        /\ result[t].outcome.status = 500
        /\ result[t].error.msg =
               <<"Failed to send alert to Keep", "Keep API request failed", "500", "server error">>

\* C5: whatever fails inside notify (enrichment, the lazy construction of the hook,
\* the re-validation, the transport, a 4xx/5xx response) reaches the caller as an
\* AirflowException "Failed to send Keep notification" around the cause; notify
\* returns only when one request was issued and answered outside [400,600).
C5_NotifyRaisesUniformError ==
    \A t \in Threads :
        result[t].via = "notify" =>
            LET r == result[t] IN
            /\ r.kind = "raised" =>
                   /\ r.error.type = "AirflowException"
                   /\ r.error.msg[1] = "Failed to send Keep notification"
                   /\ Len(r.error.msg) >= 2
            /\ r.kind = "returned" =>
                   /\ r.sent = 1
                   /\ ~r.outcome.fault
                   /\ ~InFailureRange(r.outcome.status)
                   /\ r.ctx.dag_run # "no_execution_date"
                   /\ ~BadConnection(conn)
                   /\ SchemaOK(r.payload)
            /\ r.kind # "none" => (r.kind = "raised" <=> r.error # NoError)

\* C5, reached: notify raised the uniform error around a 500 response.
C5_Witness ==
    \E t \in Threads :
        /\ result[t].via = "notify"
        /\ result[t].kind = "raised"
        /\ result[t].error.msg =
               <<"Failed to send Keep notification", "Failed to send alert to Keep",
                 "Keep API request failed", "500", "server error">>

\* C6 as stated: with an unknown connection or an empty host or password, the
\* construction of a KeepHook fails with the configuration error, and no request is
\* issued.
C6_BadConnectionIsConfigurationError ==
    (BadConnection(conn) /\ ctor.class = "KeepHook") =>
        /\ ctor.error.type = "AirflowException"
        /\ ctor.error.msg[1] = "Failed to retrieve Keep credentials"
        /\ requests = 0

\* C6 as amended: with such a connection the construction of a KeepHook fails: with
\* the configuration error when alert_data passes the schema, with the validation
\* error (raised first) when it does not; no hook exists and no request is issued,
\* by the construction or by the notify call that triggered it.
C6_BadConnectionFailsConstruction ==
    BadConnection(conn) =>
        /\ ~hook.built
        /\ obj # "hook"
        /\ requests = 0
        /\ \A t \in Threads : ~Sent(t) /\ pc[t] \in {"idle", "hook"}
        /\ ctor.class = "KeepHook" =>
               /\ ctor.error.type = "AirflowException"
               /\ ctor.error.msg[1] = IF SchemaOK(KeepAlertPayload(ctor.input))
                                      THEN "Failed to retrieve Keep credentials"
                                      ELSE "Invalid alert payload"

\* C6, reached: a notify call triggered the construction, which failed for an empty API key.
C6_Witness ==
    /\ BadConnection(conn)
    /\ conn.known /\ conn.host # ""
    /\ ctor.class = "KeepHook"
    /\ ctor.error.msg[1] = "Failed to retrieve Keep credentials"
    /\ \E t \in Threads : result[t].via = "notify" /\ result[t].kind = "raised"
    /\ requests = 0

\* C7, the requests: a request about to be issued or issued has a body the schema accepts.
C7_RequestsAreValid ==
    \A t \in Threads :
        /\ pc[t] = "run" => SchemaOK(frame[t].payload)
        /\ Sent(t) => SchemaOK(result[t].payload)

\* C7, the constructors: one given a mapping the schema rejects fails, builds no hook
\* and looks no credentials up.
C7_InvalidRejectedBeforeLookup ==
    (ctor' # ctor /\ ~SchemaOK(KeepAlertPayload(ctor'.input))) =>
        /\ ctor'.error # NoError
        /\ lookups' = lookups
        /\ hook' = hook
        /\ requests' = requests

\* C7: no request is ever issued with a body that violates the schema: an invalid
\* mapping is rejected at construction before any credential lookup, one made invalid
\* later is rejected by the re-validation before the request, whatever the sequence
\* of construct, mutate and execute steps.
C7_NoInvalidRequest == [] C7_RequestsAreValid /\ [][C7_InvalidRejectedBeforeLookup]_vars

\* C7, reached: a mapping made invalid after construction was rejected by the re-validation.
C7_Witness ==
    /\ mutations > 0
    /\ ~SchemaOK(KeepAlertPayload(alert_data))
    /\ SchemaOK(KeepAlertPayload(callerData))
    /\ \E t \in Threads :
           result[t].kind = "raised" /\ ~Sent(t) /\ result[t].via = "execute"

\* C8: a call of execute (so of notify) issues at most one request, exactly one when
\* the re-validation passed, none after a failed response or a fault; the requests
\* issued never outnumber the calls.
C8_AtMostOneRequestPerCall ==
    /\ requests <= invocations
    /\ \A t \in Threads :
           /\ result[t].sent <= 1
           /\ result[t].outcome # NoOutcome => result[t].sent = 1
           /\ result[t].kind = "returned" => result[t].sent = 1
           /\ result[t].error.type = "ValidationError" => result[t].sent = 0

\* C8, reached: two calls, two requests, the last one answered 500: no second attempt was made.
C8_Witness ==
    /\ invocations >= 2
    /\ requests = invocations
    /\ \E t \in Threads :
           result[t].kind = "raised" /\ result[t].outcome.status = 500 /\ result[t].sent = 1

\* C9: with notify called concurrently for two contexts on one KeepNotifier, each
\* call transmits exactly its own context's labels.
C9_OwnContextLabels ==
    \A t \in Threads :
        (result[t].via = "notify" /\ Transmitted(t)) =>
            \A k \in ContextKeys :
                /\ k \in DOMAIN result[t].payload.labels
                /\ result[t].payload.labels[k] = context_labels(result[t].ctx)[k]

\* C10: a timestamp the caller did not supply is the clock time at which the call
\* built its request, not the construction time or an earlier call's.
C10_TimestampsAreCallTime ==
    \A t \in Threads :
        Transmitted(t) =>
            /\ ~Has(callerData, "lastReceived") =>
                   result[t].payload.lastReceived = IsoFormat(result[t].builtAt)
            /\ (Get(callerData, "status") = "firing" /\ ~Has(callerData, "firingStartTime")) =>
                   result[t].payload.firingStartTime = IsoFormat(result[t].builtAt)

====
